---- MODULE Spec2Model ----
(***************************************************************************)
(* Model of src/main.cpp: one orchestrating thread (main) that starts the  *)
(* runtime, creates two sub-interpreters, writes sys.xxx in the main       *)
(* interpreter, spawns four worker threads running f, releases the GIL     *)
(* while joining them, and tears everything down in reverse order.         *)
(*                                                                         *)
(* The CPython calls the source makes are modelled by what they do to the  *)
(* interpreter list, the thread-state list, the per-thread current thread  *)
(* state and the GIL.                                                      *)
(***************************************************************************)
EXTENDS Integers, Sequences, FiniteSets, TLC

Workers == {"t1", "t2", "t3", "t4"}
Threads == {"main"} \cup Workers

\* sub_interpreter objects of main(), lines 186-187
SubInterpreters == {"s1", "s2"}

\* interpreter states: the main interpreter and the one of each sub_interpreter
MainInterp == "main_interp"
InterpOf == [s1 |-> "interp_s1", s2 |-> "interp_s2"]
Interps == {MainInterp, InterpOf["s1"], InterpOf["s2"]}
NoInterp == "no_interp"

\* thread states: the one Py_InitializeEx makes, the one each Py_NewInterpreter
\* makes, and the one each worker's thread_state makes
MainTs == "ts_main"
PrimordialTs == [s1 |-> "ts_s1", s2 |-> "ts_s2"]
WorkerTs == [t1 |-> "ts_t1", t2 |-> "ts_t2", t3 |-> "ts_t3", t4 |-> "ts_t4"]
TStates == {MainTs, PrimordialTs["s1"], PrimordialTs["s2"]}
             \cup {WorkerTs[w] : w \in Workers}
NULL == "NULL"
Nobody == "nobody"

\* values of sys.xxx
Unset == "attribute not set"
Abc == "abc"
NotRead == "not read"

\* main(), lines 182-214, as the sequence of its steps; the destructors of the
\* locals run in reverse order of construction at the closing brace
MainProg ==
  << [op |-> "init",         obj |-> "init"],   \* 184
     [op |-> "ctor_save",    obj |-> "s1"],     \* 186 -> 134
     [op |-> "ctor_new",     obj |-> "s1"],     \* 186 -> 136
     [op |-> "ctor_restore", obj |-> "s1"],     \* 186 -> 137
     [op |-> "ctor_save",    obj |-> "s2"],     \* 187 -> 134
     [op |-> "ctor_new",     obj |-> "s2"],     \* 187 -> 136
     [op |-> "ctor_restore", obj |-> "s2"],     \* 187 -> 137
     [op |-> "run",          obj |-> "main"],   \* 189-199
     [op |-> "spawn",        obj |-> "t1"],     \* 201
     [op |-> "spawn",        obj |-> "t2"],     \* 202
     [op |-> "spawn",        obj |-> "t3"],     \* 203
     [op |-> "spawn",        obj |-> "t4"],     \* 204
     [op |-> "enable_ctor",  obj |-> "t"],      \* 206
     [op |-> "join",         obj |-> "t1"],     \* 208
     [op |-> "join",         obj |-> "t2"],     \* 209
     [op |-> "join",         obj |-> "t3"],     \* 210
     [op |-> "join",         obj |-> "t4"],     \* 211
     [op |-> "enable_dtor",  obj |-> "t"],      \* 214, ~enable_threads_scope
     [op |-> "dtor_swap",    obj |-> "s2"],     \* 214 -> 141-143
     [op |-> "dtor_end",     obj |-> "s2"],     \* 214 -> 145
     [op |-> "dtor_unswap",  obj |-> "s2"],     \* 214 -> 146
     [op |-> "dtor_swap",    obj |-> "s1"],     \* 214 -> 141-143
     [op |-> "dtor_end",     obj |-> "s1"],     \* 214 -> 145
     [op |-> "dtor_unswap",  obj |-> "s1"],     \* 214 -> 146
     [op |-> "fini",         obj |-> "init"] >> \* 214 -> 20

\* main() with t1.join() moved from line 208 to after the destructors of s2
\* and s1: a caller of the same classes that lets a thread outlive the
\* sub_interpreter whose interp() it was started with
StaleProg ==
  SubSeq(MainProg, 1, 13) \o SubSeq(MainProg, 15, 24)
    \o << MainProg[14], MainProg[25] >>

\* every worker started with sub_interpreter::current()
SpawnArg_AllCurrent ==
  [t1 |-> "current", t2 |-> "current", t3 |-> "current", t4 |-> "current"]

\* the interpreter each worker is started with, lines 201-204
SpawnArg == [t1 |-> "s1", t2 |-> "s2", t3 |-> "s1", t4 |-> "current"]

VARIABLES
  prog,         \* the steps of main(): MainProg, or another caller's
  failing,      \* the sub_interpreters whose Py_NewInterpreter returns NULL
  mpc,          \* position of main() in prog; Len(prog)+1 once returned
  pc,           \* position of each worker thread in f
  wl,           \* phase of the PyRun_SimpleString call a thread is in
  runtime,      \* "down", "up" or "finalized"
  initCount,    \* number of Py_InitializeEx calls made
  finCount,     \* number of Py_Finalize calls made
  interps,      \* live interpreter states
  ended,        \* interpreter states that were destroyed
  tsLive,       \* live thread states
  tsInterp,     \* PyThreadState::interp of each thread state
  tsCreator,    \* the thread that created each thread state
  tsCleared,    \* thread states PyThreadState_Clear was called on
  cur,          \* current thread state of each thread
  holds,        \* whether each thread holds the GIL
  scopes,       \* per thread: the live guard objects, innermost last
  s_ts,         \* sub_interpreter::_ts of s1 and s2
  arg,          \* the interp argument each worker's f was called with
  xxx,          \* sys.xxx of each interpreter
  out,          \* what each thread's script printed for sys.xxx
  fatal         \* Py_FatalError was called: the process aborted

vars == << prog, failing, mpc, pc, wl, runtime, initCount, finCount, interps, ended, tsLive,
           tsInterp, tsCreator, tsCleared, cur, holds, scopes, s_ts, arg,
           xxx, out, fatal >>

\* variable groups
inVars   == << prog, failing >>
rtVars   == << runtime, initCount, finCount >>
intVars  == << interps, ended >>
tsVars   == << tsLive, tsInterp, tsCreator, tsCleared >>
dataVars == << xxx, out >>

Done == Len(MainProg) + 1

\* the state before main() starts
InitState ==
  /\ mpc = 1
  /\ pc = [w \in Workers |-> "unstarted"]
  /\ wl = [t \in Threads |-> "idle"]
  /\ runtime = "down"
  /\ initCount = 0
  /\ finCount = 0
  /\ interps = {}
  /\ ended = {}
  /\ tsLive = {}
  /\ tsInterp = [ts \in TStates |-> NoInterp]
  /\ tsCreator = [ts \in TStates |-> Nobody]
  /\ tsCleared = {}
  /\ cur = [t \in Threads |-> NULL]
  /\ holds = [t \in Threads |-> FALSE]
  /\ scopes = [t \in Threads |-> << >>]
  /\ s_ts = [s \in SubInterpreters |-> NULL]
  /\ arg = [w \in Workers |-> NoInterp]
  /\ xxx = [i \in Interps |-> Unset]
  /\ out = [t \in Threads |-> NotRead]
  /\ fatal = FALSE

\* main() as written, with both Py_NewInterpreter calls succeeding
Init ==
  /\ prog = MainProg
  /\ failing = {}
  /\ InitState

\* the caller that joins t1 last
StaleInit ==
  /\ prog = StaleProg
  /\ failing = {}
  /\ InitState

\* main() as written, with none or one of the Py_NewInterpreter calls failing
FailInit ==
  /\ prog = MainProg
  /\ failing \in {{}, {"s1"}, {"s2"}}
  /\ InitState

----------------------------------------------------------------------------
\* Helpers

AtMain(o) == ~fatal /\ mpc < Done /\ prog[mpc].op = o
MainObj == prog[mpc].obj

GilFree == \A u \in Threads : ~holds[u]

Push(t, kind, ts) == scopes' = [scopes EXCEPT ![t] = Append(@, [kind |-> kind, ts |-> ts])]
Pop(t) == scopes' = [scopes EXCEPT ![t] = SubSeq(@, 1, Len(@) - 1)]
Top(t) == scopes[t][Len(scopes[t])]

\* Py_FatalError: the process aborts, nothing else changes
Abort ==
  /\ fatal' = TRUE
  /\ UNCHANGED << inVars, mpc, pc, wl, rtVars, intVars, tsVars, cur, holds, scopes,
                  s_ts, arg, dataVars >>

\* thread states of interpreter i
TsOfInterp(i) == {ts \in tsLive : tsInterp[ts] = i}

----------------------------------------------------------------------------
\* The CPython calls, by what they do to the current thread state and the GIL

\* PyThreadState_Swap(ts): ts becomes the caller's current thread state (the
\* previous one, cur[t], is the return value); the GIL is not touched
PyThreadState_Swap(t, ts) == cur' = [cur EXCEPT ![t] = ts]

\* PyEval_SaveThread that releases the GIL and leaves the current thread state
PyEval_SaveThread_KeepCurrent(t) ==
  /\ cur' = cur
  /\ holds' = [holds EXCEPT ![t] = FALSE]

\* PyEval_SaveThread(): the current thread state becomes NULL and the GIL is
\* released (the previous thread state, cur[t], is the return value)
PyEval_SaveThread(t) ==
  /\ cur' = [cur EXCEPT ![t] = NULL]
  /\ holds' = [holds EXCEPT ![t] = FALSE]

\* PyEval_RestoreThread that does not wait for the GIL to be free
PyEval_RestoreThread_NoWait(t, ts) ==
  /\ holds' = [holds EXCEPT ![t] = TRUE]
  /\ cur' = [cur EXCEPT ![t] = ts]

\* PyEval_RestoreThread(ts): blocks until the GIL is free, takes it, and makes
\* ts the current thread state
PyEval_RestoreThread(t, ts) ==
  /\ GilFree
  /\ holds' = [holds EXCEPT ![t] = TRUE]
  /\ cur' = [cur EXCEPT ![t] = ts]

\* a new thread state ts of interpreter i, created by thread t
NewThreadState(t, ts, i) ==
  /\ tsLive' = tsLive \cup {ts}
  /\ tsInterp' = [tsInterp EXCEPT ![ts] = i]
  /\ tsCreator' = [tsCreator EXCEPT ![ts] = t]
  /\ UNCHANGED tsCleared

----------------------------------------------------------------------------
\* main()

\* initialize::initialize, lines 12-16: Py_InitializeEx creates the main
\* interpreter and main's thread state, which is current and holds the GIL
Initialize ==
  /\ AtMain("init")
  /\ runtime' = "up"
  /\ initCount' = initCount + 1
  /\ interps' = interps \cup {MainInterp}
  /\ NewThreadState("main", MainTs, MainInterp)
  /\ cur' = [cur EXCEPT !["main"] = MainTs]
  /\ holds' = [holds EXCEPT !["main"] = TRUE]
  /\ mpc' = mpc + 1
  /\ UNCHANGED << inVars, pc, wl, finCount, ended, scopes, s_ts, arg, dataVars, fatal >>

\* restore_tstate_scope::restore_tstate_scope, lines 48-51, entered from the
\* sub_interpreter constructor, line 134
RestoreTstateScopeCtor ==
  /\ AtMain("ctor_save")
  /\ IF cur["main"] = NULL
       THEN Abort
       ELSE /\ Push("main", "restore", cur["main"])
            /\ mpc' = mpc + 1
            /\ UNCHANGED << inVars, pc, wl, rtVars, intVars, tsVars, cur, holds, s_ts,
                            arg, dataVars, fatal >>

\* sub_interpreter::sub_interpreter, line 136: Py_NewInterpreter creates an
\* interpreter and its first thread state and makes that one current; when it
\* fails it returns NULL and leaves the current thread state as it was
SubInterpreterCtor ==
  /\ AtMain("ctor_new")
  /\ IF ~holds["main"] \/ runtime # "up"
       THEN Abort
       ELSE IF MainObj \in failing
       THEN /\ s_ts' = [s_ts EXCEPT ![MainObj] = NULL]
            /\ mpc' = mpc + 1
            /\ UNCHANGED << inVars, pc, wl, rtVars, intVars, tsVars, cur, holds,
                            scopes, arg, dataVars, fatal >>
       ELSE /\ interps' = interps \cup {InterpOf[MainObj]}
            /\ NewThreadState("main", PrimordialTs[MainObj], InterpOf[MainObj])
            /\ PyThreadState_Swap("main", PrimordialTs[MainObj])
            /\ s_ts' = [s_ts EXCEPT ![MainObj] = PrimordialTs[MainObj]]
            /\ mpc' = mpc + 1
            /\ UNCHANGED << inVars, pc, wl, rtVars, ended, holds, scopes, arg,
                            dataVars, fatal >>

\* ~restore_tstate_scope that does not swap the saved thread state back
RestoreTstateScopeDtor_NoSwap ==
  /\ AtMain("ctor_restore")
  /\ Pop("main")
  /\ mpc' = mpc + 1
  /\ UNCHANGED << inVars, pc, wl, rtVars, intVars, tsVars, cur, holds, s_ts, arg,
                  dataVars, fatal >>

\* restore_tstate_scope::~restore_tstate_scope, lines 53-56, at the end of the
\* sub_interpreter constructor, line 137
RestoreTstateScopeDtor ==
  /\ AtMain("ctor_restore")
  /\ PyThreadState_Swap("main", Top("main").ts)
  /\ Pop("main")
  /\ mpc' = mpc + 1
  /\ UNCHANGED << inVars, pc, wl, rtVars, intVars, tsVars, holds, s_ts, arg,
                  dataVars, fatal >>

\* s.interp(), line 151, and sub_interpreter::current(), line 156: the interp
\* field of a thread state; reading it through a null or freed pointer gives
\* any value
InterpField(ts) ==
  IF ts \in tsLive THEN {tsInterp[ts]} ELSE Interps \cup {NoInterp}

\* the thread state whose interp field the argument of line 201-204 reads
SpawnTs == IF SpawnArg[MainObj] = "current"
             THEN cur["main"]
             ELSE s_ts[SpawnArg[MainObj]]

\* std::thread t{f, interp, tname}, lines 201-204: the argument is evaluated
\* on main, then the thread starts running f; reading the argument through a
\* null or freed pointer may also crash
Spawn ==
  /\ AtMain("spawn")
  /\ \/ /\ \E i \in InterpField(SpawnTs) : arg' = [arg EXCEPT ![MainObj] = i]
        /\ pc' = [pc EXCEPT ![MainObj] = "new"]
        /\ mpc' = mpc + 1
        /\ UNCHANGED << inVars, wl, rtVars, intVars, tsVars, cur, holds, scopes,
                        s_ts, dataVars, fatal >>
     \/ /\ SpawnTs \notin tsLive
        /\ Abort

\* enable_threads_scope that does not keep what PyEval_SaveThread returns
EnableThreadsScopeCtor_DropState ==
  /\ AtMain("enable_ctor")
  /\ Push("main", "enable_threads", NULL)
  /\ PyEval_SaveThread("main")
  /\ mpc' = mpc + 1
  /\ UNCHANGED << inVars, pc, wl, rtVars, intVars, tsVars, s_ts, arg,
                  dataVars, fatal >>

\* enable_threads_scope that keeps the thread state but does not release the GIL
EnableThreadsScopeCtor_NoRelease ==
  /\ AtMain("enable_ctor")
  /\ Push("main", "enable_threads", cur["main"])
  /\ mpc' = mpc + 1
  /\ UNCHANGED << inVars, pc, wl, rtVars, intVars, tsVars, cur, holds, s_ts, arg,
                  dataVars, fatal >>

\* enable_threads_scope::enable_threads_scope, lines 28-31
EnableThreadsScopeCtor ==
  /\ AtMain("enable_ctor")
  /\ IF cur["main"] = NULL
       THEN Abort
       ELSE /\ Push("main", "enable_threads", cur["main"])
            /\ PyEval_SaveThread("main")
            /\ mpc' = mpc + 1
            /\ UNCHANGED << inVars, pc, wl, rtVars, intVars, tsVars, s_ts, arg,
                            dataVars, fatal >>

\* join that returns without waiting for the thread
Join_NoWait ==
  /\ AtMain("join")
  /\ mpc' = mpc + 1
  /\ UNCHANGED << inVars, pc, wl, rtVars, intVars, tsVars, cur, holds, scopes, s_ts,
                  arg, dataVars, fatal >>

\* t.join(), lines 208-211: blocks until the thread has returned from f
Join ==
  /\ AtMain("join")
  /\ pc[MainObj] = "exit"
  /\ mpc' = mpc + 1
  /\ UNCHANGED << inVars, pc, wl, rtVars, intVars, tsVars, cur, holds, scopes, s_ts,
                  arg, dataVars, fatal >>

\* ~enable_threads_scope that swaps the thread state in without taking the GIL
EnableThreadsScopeDtor_SwapOnly ==
  /\ AtMain("enable_dtor")
  /\ PyThreadState_Swap("main", Top("main").ts)
  /\ Pop("main")
  /\ mpc' = mpc + 1
  /\ UNCHANGED << inVars, pc, wl, rtVars, intVars, tsVars, holds, s_ts, arg,
                  dataVars, fatal >>

\* enable_threads_scope::~enable_threads_scope, lines 33-36
EnableThreadsScopeDtor ==
  /\ AtMain("enable_dtor")
  /\ IF Top("main").ts = NULL
       THEN Abort
       ELSE /\ PyEval_RestoreThread("main", Top("main").ts)
            /\ Pop("main")
            /\ mpc' = mpc + 1
            /\ UNCHANGED << inVars, pc, wl, rtVars, intVars, tsVars, s_ts, arg,
                            dataVars, fatal >>

\* ~sub_interpreter without the test of _ts
SubInterpreterDtorSwap_NoNullCheck ==
  /\ AtMain("dtor_swap")
  /\ Push("main", "swap", cur["main"])
  /\ PyThreadState_Swap("main", s_ts[MainObj])
  /\ mpc' = mpc + 1
  /\ UNCHANGED << inVars, pc, wl, rtVars, intVars, tsVars, holds, s_ts, arg,
                  dataVars, fatal >>

\* ~sub_interpreter that saves the current thread state but does not make _ts
\* current
SubInterpreterDtorSwap_NoSwap ==
  /\ AtMain("dtor_swap")
  /\ Push("main", "swap", cur["main"])
  /\ mpc' = mpc + 1
  /\ UNCHANGED << inVars, pc, wl, rtVars, intVars, tsVars, cur, holds, s_ts, arg,
                  dataVars, fatal >>

\* sub_interpreter::~sub_interpreter, lines 141-143: nothing is done for a
\* null _ts; otherwise swap_tstate_scope::swap_tstate_scope, lines 68-71
SubInterpreterDtorSwap ==
  /\ AtMain("dtor_swap")
  /\ IF s_ts[MainObj] = NULL
       THEN /\ mpc' = mpc + 3
            /\ UNCHANGED << inVars, pc, wl, rtVars, intVars, tsVars, cur, holds,
                            scopes, s_ts, arg, dataVars, fatal >>
       ELSE /\ Push("main", "swap", cur["main"])
            /\ PyThreadState_Swap("main", s_ts[MainObj])
            /\ mpc' = mpc + 1
            /\ UNCHANGED << inVars, pc, wl, rtVars, intVars, tsVars, holds, s_ts, arg,
                            dataVars, fatal >>

\* sub_interpreter::~sub_interpreter, line 145: Py_EndInterpreter aborts unless
\* the thread state is the current one and the only one of its interpreter;
\* it destroys both and leaves the current thread state NULL
SubInterpreterDtorEnd ==
  /\ AtMain("dtor_end")
  /\ IF \/ ~holds["main"]
        \/ s_ts[MainObj] \notin tsLive
        \/ cur["main"] # s_ts[MainObj]
        \/ TsOfInterp(tsInterp[s_ts[MainObj]]) # {s_ts[MainObj]}
       THEN Abort
       ELSE /\ interps' = interps \ {tsInterp[s_ts[MainObj]]}
            /\ ended' = ended \cup {tsInterp[s_ts[MainObj]]}
            /\ tsLive' = tsLive \ {s_ts[MainObj]}
            /\ cur' = [cur EXCEPT !["main"] = NULL]
            /\ mpc' = mpc + 1
            /\ UNCHANGED << inVars, pc, wl, rtVars, tsInterp, tsCreator, tsCleared,
                            holds, scopes, s_ts, arg, dataVars, fatal >>

\* ~swap_tstate_scope that does not swap the saved thread state back
SubInterpreterDtorUnswap_NoSwap ==
  /\ AtMain("dtor_unswap")
  /\ Pop("main")
  /\ mpc' = mpc + 1
  /\ UNCHANGED << inVars, pc, wl, rtVars, intVars, tsVars, cur, holds, s_ts,
                  arg, dataVars, fatal >>

\* swap_tstate_scope::~swap_tstate_scope, lines 73-76, at the end of the
\* sub_interpreter destructor, line 146
SubInterpreterDtorUnswap ==
  /\ AtMain("dtor_unswap")
  /\ PyThreadState_Swap("main", Top("main").ts)
  /\ Pop("main")
  /\ mpc' = mpc + 1
  /\ UNCHANGED << inVars, pc, wl, rtVars, intVars, tsVars, holds, s_ts, arg,
                  dataVars, fatal >>

\* initialize::~initialize, lines 18-21: Py_Finalize destroys the main
\* interpreter with its thread states, and the GIL with it
Finalize ==
  /\ AtMain("fini")
  /\ IF ~holds["main"] \/ cur["main"] = NULL \/ runtime # "up"
       THEN Abort
       ELSE /\ runtime' = "finalized"
            /\ finCount' = finCount + 1
            /\ interps' = interps \ {MainInterp}
            /\ ended' = ended \cup {MainInterp}
            /\ tsLive' = tsLive \ TsOfInterp(MainInterp)
            /\ cur' = [cur EXCEPT !["main"] = NULL]
            /\ holds' = [holds EXCEPT !["main"] = FALSE]
            /\ mpc' = mpc + 1
            /\ UNCHANGED << inVars, pc, wl, initCount, tsInterp, tsCreator, tsCleared,
                            scopes, s_ts, arg, dataVars, fatal >>

----------------------------------------------------------------------------
\* PyRun_SimpleString, called by main (line 189) and by f (line 179)

InRun(t) ==
  /\ ~fatal
  /\ IF t = "main" THEN AtMain("run") ELSE pc[t] = "run"

\* the call returns (0 or -1, which the caller ignores): the caller goes on
Return(t) ==
  /\ wl' = [wl EXCEPT ![t] = "idle"]
  /\ IF t = "main"
       THEN mpc' = mpc + 1 /\ UNCHANGED pc
       ELSE pc' = [pc EXCEPT ![t] = "unswap"] /\ UNCHANGED mpc

\* the values the script of t can find for sys.xxx: the one of the interpreter
\* of the current thread state, or anything when that interpreter is not live
SysXxx(t, x) ==
  IF tsInterp[cur[t]] \in interps THEN {x[tsInterp[cur[t]]]} ELSE {Unset, Abc}

\* the script runs up to its print: main's script sets sys.xxx (line 196) and
\* formats it (line 197), f's script formats getattr(sys, 'xxx', ...) (line
\* 172); sys is the module of the interpreter of the current thread state.
\* Running in an interpreter that is not live may also crash
RunScript(t) ==
  /\ InRun(t)
  /\ wl[t] = "idle"
  /\ IF ~holds[t] \/ cur[t] \notin tsLive
       THEN Abort
       ELSE \/ /\ xxx' = IF t = "main" /\ tsInterp[cur[t]] \in interps
                             THEN [xxx EXCEPT ![tsInterp[cur[t]]] = Abc]
                             ELSE xxx
               /\ \E v \in SysXxx(t, xxx') : out' = [out EXCEPT ![t] = v]
               /\ wl' = [wl EXCEPT ![t] = "print"]
               /\ UNCHANGED << inVars, mpc, pc, rtVars, intVars, tsVars, cur,
                               holds, scopes, s_ts, arg, fatal >>
            \/ /\ tsInterp[cur[t]] \notin interps
               /\ Abort

\* the script raises before it reaches sys.xxx; PyRun_SimpleString returns -1
RunError(t) ==
  /\ InRun(t)
  /\ wl[t] = "idle"
  /\ IF ~holds[t] \/ cur[t] \notin tsLive
       THEN Abort
       ELSE /\ Return(t)
            /\ UNCHANGED << inVars, rtVars, intVars, tsVars, cur, holds, scopes, s_ts,
                            arg, dataVars, fatal >>

\* print writes to stdout: the interpreter releases the GIL around the write
RunPrintRelease(t) ==
  /\ InRun(t)
  /\ wl[t] = "print"
  /\ Push(t, "allow_threads", cur[t])
  /\ PyEval_SaveThread(t)
  /\ wl' = [wl EXCEPT ![t] = "io"]
  /\ UNCHANGED << inVars, mpc, pc, rtVars, intVars, tsVars, s_ts, arg, dataVars, fatal >>

\* the interpreter goes on after the write without taking the GIL again
RunPrintResume_NoWait(t) ==
  /\ InRun(t)
  /\ wl[t] = "io"
  /\ PyEval_RestoreThread_NoWait(t, Top(t).ts)
  /\ Pop(t)
  /\ wl' = [wl EXCEPT ![t] = "printed"]
  /\ UNCHANGED << inVars, mpc, pc, rtVars, intVars, tsVars, s_ts, arg, dataVars, fatal >>

\* the write is done: the interpreter takes the GIL again
RunPrintResume(t) ==
  /\ InRun(t)
  /\ wl[t] = "io"
  /\ PyEval_RestoreThread(t, Top(t).ts)
  /\ Pop(t)
  /\ wl' = [wl EXCEPT ![t] = "printed"]
  /\ UNCHANGED << inVars, mpc, pc, rtVars, intVars, tsVars, s_ts, arg, dataVars, fatal >>

\* the script is over; the output may also have stayed in the buffer of stdout
RunReturn(t) ==
  /\ InRun(t)
  /\ wl[t] \in {"print", "printed"}
  /\ Return(t)
  /\ UNCHANGED << inVars, rtVars, intVars, tsVars, cur, holds, scopes, s_ts, arg,
                  dataVars, fatal >>

----------------------------------------------------------------------------
\* f, in a worker thread w

\* thread_state that ignores its argument and uses the main interpreter
ThreadStateNew_MainInterp(w) ==
  /\ ~fatal
  /\ pc[w] = "new"
  /\ NewThreadState(w, WorkerTs[w], MainInterp)
  /\ Push(w, "thread_state", WorkerTs[w])
  /\ pc' = [pc EXCEPT ![w] = "restore"]
  /\ UNCHANGED << inVars, mpc, wl, rtVars, intVars, cur, holds, s_ts, arg,
                  dataVars, fatal >>

\* thread_state::thread_state, line 90, entered from thread_scope (line 127)
\* from f (line 178): PyThreadState_New, called without the GIL. Nothing
\* checks that interp is a live interpreter: with a freed or garbage pointer
\* the call may crash, or may return a thread state that points to it
ThreadStateNew(w) ==
  /\ ~fatal
  /\ pc[w] = "new"
  /\ \/ /\ NewThreadState(w, WorkerTs[w], arg[w])
        /\ Push(w, "thread_state", WorkerTs[w])
        /\ pc' = [pc EXCEPT ![w] = "restore"]
        /\ UNCHANGED << inVars, mpc, wl, rtVars, intVars, cur, holds, s_ts, arg,
                        dataVars, fatal >>
     \/ /\ arg[w] \notin interps
        /\ Abort

\* thread_state that takes over the thread state main created for the
\* interpreter instead of the one it has just created
ThreadStateRestore_Primordial(w) ==
  /\ ~fatal
  /\ pc[w] = "restore"
  /\ PyEval_RestoreThread(w, CHOOSE ts \in TsOfInterp(arg[w]) : tsCreator[ts] = "main")
  /\ pc' = [pc EXCEPT ![w] = "swap"]
  /\ UNCHANGED << inVars, mpc, wl, rtVars, intVars, tsVars, scopes, s_ts, arg,
                  dataVars, fatal >>

\* thread_state::thread_state, line 91
ThreadStateRestore(w) ==
  /\ ~fatal
  /\ pc[w] = "restore"
  /\ PyEval_RestoreThread(w, Top(w).ts)
  /\ pc' = [pc EXCEPT ![w] = "swap"]
  /\ UNCHANGED << inVars, mpc, wl, rtVars, intVars, tsVars, scopes, s_ts, arg,
                  dataVars, fatal >>

\* thread_scope whose _swap is constructed with a null target
ThreadScopeSwap_Null(w) ==
  /\ ~fatal
  /\ pc[w] = "swap"
  /\ Push(w, "swap", cur[w])
  /\ PyThreadState_Swap(w, NULL)
  /\ pc' = [pc EXCEPT ![w] = "run"]
  /\ UNCHANGED << inVars, mpc, wl, rtVars, intVars, tsVars, holds, s_ts, arg,
                  dataVars, fatal >>

\* swap_tstate_scope::swap_tstate_scope, lines 68-71, for the member _swap of
\* thread_scope, line 124: the target is _state's thread state
ThreadScopeSwap(w) ==
  /\ ~fatal
  /\ pc[w] = "swap"
  /\ Push(w, "swap", cur[w])
  /\ PyThreadState_Swap(w, Top(w).ts)
  /\ pc' = [pc EXCEPT ![w] = "run"]
  /\ UNCHANGED << inVars, mpc, wl, rtVars, intVars, tsVars, holds, s_ts, arg,
                  dataVars, fatal >>

\* thread_scope whose thread state is deleted while _swap is still alive
ThreadScopeUnswap_DeleteFirst(w) ==
  /\ ~fatal
  /\ pc[w] = "unswap"
  /\ tsLive' = tsLive \ {cur[w]}
  /\ PyEval_SaveThread(w)
  /\ pc' = [pc EXCEPT ![w] = "clear"]
  /\ UNCHANGED << inVars, mpc, wl, rtVars, intVars, tsInterp, tsCreator, tsCleared,
                  scopes, s_ts, arg, dataVars, fatal >>

\* swap_tstate_scope::~swap_tstate_scope, lines 73-76, for the member _swap
\* when scope goes out of scope, line 180
ThreadScopeUnswap(w) ==
  /\ ~fatal
  /\ pc[w] = "unswap"
  /\ PyThreadState_Swap(w, Top(w).ts)
  /\ Pop(w)
  /\ pc' = [pc EXCEPT ![w] = "clear"]
  /\ UNCHANGED << inVars, mpc, wl, rtVars, intVars, tsVars, holds, s_ts, arg,
                  dataVars, fatal >>

\* thread_state::~thread_state, line 96: PyThreadState_Clear
ThreadStateClear(w) ==
  /\ ~fatal
  /\ pc[w] = "clear"
  /\ tsCleared' = tsCleared \cup {Top(w).ts}
  /\ pc' = [pc EXCEPT ![w] = "delete"]
  /\ UNCHANGED << inVars, mpc, wl, rtVars, intVars, tsLive, tsInterp, tsCreator, cur,
                  holds, scopes, s_ts, arg, dataVars, fatal >>

\* ~thread_state that stops after PyThreadState_Clear
ThreadStateDelete_ClearOnly(w) ==
  /\ ~fatal
  /\ pc[w] = "delete"
  /\ Pop(w)
  /\ pc' = [pc EXCEPT ![w] = "exit"]
  /\ UNCHANGED << inVars, mpc, wl, rtVars, intVars, tsVars, cur, holds, s_ts, arg,
                  dataVars, fatal >>

\* thread_state::~thread_state, line 97: PyThreadState_DeleteCurrent destroys
\* the current thread state and releases the GIL; then f returns
ThreadStateDelete(w) ==
  /\ ~fatal
  /\ pc[w] = "delete"
  /\ IF cur[w] = NULL \/ ~holds[w]
       THEN Abort
       ELSE /\ tsLive' = tsLive \ {cur[w]}
            /\ PyEval_SaveThread(w)
            /\ Pop(w)
            /\ pc' = [pc EXCEPT ![w] = "exit"]
            /\ UNCHANGED << inVars, mpc, wl, rtVars, intVars, tsInterp, tsCreator,
                            tsCleared, s_ts, arg, dataVars, fatal >>

----------------------------------------------------------------------------

Next ==
  \/ Initialize
  \/ RestoreTstateScopeCtor
  \/ SubInterpreterCtor
  \/ RestoreTstateScopeDtor
  \/ Spawn
  \/ EnableThreadsScopeCtor
  \/ Join
  \/ EnableThreadsScopeDtor
  \/ SubInterpreterDtorSwap
  \/ SubInterpreterDtorEnd
  \/ SubInterpreterDtorUnswap
  \/ Finalize
  \/ \E t \in Threads : RunScript(t)
  \/ \E t \in Threads : RunError(t)
  \/ \E t \in Threads : RunPrintRelease(t)
  \/ \E t \in Threads : RunPrintResume(t)
  \/ \E t \in Threads : RunReturn(t)
  \/ \E w \in Workers : ThreadStateNew(w)
  \/ \E w \in Workers : ThreadStateRestore(w)
  \/ \E w \in Workers : ThreadScopeSwap(w)
  \/ \E w \in Workers : ThreadScopeUnswap(w)
  \/ \E w \in Workers : ThreadStateClear(w)
  \/ \E w \in Workers : ThreadStateDelete(w)

Spec == Init /\ [][Next]_vars

\* the classes used by the caller that joins t1 last
StaleSpec == StaleInit /\ [][Next]_vars

\* main() when one Py_NewInterpreter call may fail
FailSpec == FailInit /\ [][Next]_vars

\* every thread that can take a step eventually takes one
FairSpec == Spec /\ WF_vars(Next)

----------------------------------------------------------------------------
\* Properties

\* position in MainProg of the step op on object obj
PosOf(o, obj) == CHOOSE i \in DOMAIN MainProg : MainProg[i] = [op |-> o, obj |-> obj]

\* thread t has a live guard of one of the kinds
HasScope(t, kinds) == \E i \in DOMAIN scopes[t] : scopes[t][i].kind \in kinds

\* main is inside the enable_threads_scope t of line 206
Released == HasScope("main", {"enable_threads"})

\* main has returned and every worker thread has returned from f
Terminated == mpc = Done /\ \A w \in Workers : pc[w] = "exit"

\* thread t is running the statements of its script
Executing(t) ==
  /\ IF t = "main" THEN mpc < Done /\ prog[mpc].op = "run" ELSE pc[t] = "run"
  /\ wl[t] # "io"

\* the interpreter thread t is to run its script in
AskedInterp(t) == IF t = "main" THEN MainInterp ELSE arg[t]

\* C1: in every reachable state at most one thread holds the GIL
C1_MutualExclusion == Cardinality({t \in Threads : holds[t]}) <= 1

\* a worker holds the GIL while main is in its release scope and another
\* worker is blocked in PyEval_RestoreThread
C1_Witness ==
  /\ Released
  /\ \E w \in Workers : holds[w] /\ \E u \in Workers \ {w} : pc[u] = "restore"

\* C2: a thread that is running its script holds the GIL, and its current
\* thread state is live, was created by that thread, and belongs to the
\* interpreter the thread was asked to run in
C2_WorkloadBinding ==
  \A t \in Threads :
    Executing(t) =>
      /\ holds[t]
      /\ cur[t] \in tsLive
      /\ tsCreator[cur[t]] = t
      /\ tsInterp[cur[t]] = AskedInterp(t)
      /\ AskedInterp(t) \in interps

\* a worker of a sub-interpreter is back in its script after the write of print
C2_Witness ==
  \E w \in Workers :
    pc[w] = "run" /\ wl[w] = "printed" /\ arg[w] = InterpOf["s1"]

\* C3: no reachable state other than the terminated one is without a next
\* step, and under fair scheduling, once main is in its release scope, every
\* worker returns from f and main returns
C3_Progress ==
  /\ [](Terminated \/ ENABLED Next)
  /\ \A w \in Workers : (Released ~> pc[w] = "exit")
  /\ (Released ~> Terminated)

\* main is in its release scope and all four workers are still before or in
\* PyEval_RestoreThread
C3_Witness ==
  /\ Released
  /\ \A w \in Workers : pc[w] \in {"new", "restore"}

\* the value of sys.xxx the script of worker w is expected to print
Expected(w) == IF w = "t4" THEN Abc ELSE Unset

\* the interpreter worker w is expected to run in
ExpectedInterp(w) ==
  CASE w \in {"t1", "t3"} -> InterpOf["s1"]
    [] w = "t2" -> InterpOf["s2"]
    [] w = "t4" -> MainInterp

\* main's script has set sys.xxx (line 196)
XSet == out["main"] = Abc

\* C4: t1 and t3 run in s1, t2 in s2 and t4 in the main interpreter, and once
\* main's script has set sys.xxx, a worker that has read sys.xxx found it
\* unset, except t4, which found abc
C4_Observations ==
  \A w \in Workers :
    /\ pc[w] # "unstarted" => arg[w] = ExpectedInterp(w)
    /\ XSet /\ out[w] # NotRead => out[w] = Expected(w)

\* sys.xxx was set, and all four workers have read sys.xxx and returned
C4_Witness == XSet /\ \A w \in Workers : pc[w] = "exit" /\ out[w] # NotRead

\* C5: while main is in its release scope it does not hold the GIL; the step
\* that leaves the scope is taken only when no thread holds the GIL, and after
\* it main holds the GIL
C5_ReleaseTokenScope ==
  /\ [](Released => ~holds["main"])
  /\ [][Released /\ ~Released' => GilFree /\ holds'["main"] /\ ~fatal']_vars

\* main has left its release scope and holds the GIL again, after every worker
\* took the GIL and read sys.xxx during the scope
C5_Witness ==
  /\ mpc > PosOf("enable_dtor", "t")
  /\ ~Released
  /\ holds["main"]
  /\ \A w \in Workers : out[w] # NotRead

\* C6: main's current thread state and its hold of the GIL are the same right
\* after restore_tstate_scope is left as right before it is entered, although
\* Py_NewInterpreter makes the new interpreter's thread state current inside
C6_SaveRestoreRoundTrip ==
  \A s \in SubInterpreters :
    /\ mpc = PosOf("ctor_save", s) => cur["main"] = MainTs /\ holds["main"]
    /\ mpc = PosOf("ctor_restore", s) =>
         cur["main"] = PrimordialTs[s] /\ cur["main"] # Top("main").ts
    /\ mpc = PosOf("ctor_restore", s) + 1 /\ wl["main"] = "idle" =>
         /\ cur["main"] = MainTs
         /\ {t \in Threads : holds[t]} = {"main"}
         /\ ~HasScope("main", {"restore"})

\* both sub_interpreter constructors have returned
C6_Witness ==
  /\ mpc = PosOf("ctor_restore", "s2") + 1
  /\ wl["main"] = "idle"
  /\ s_ts = PrimordialTs

\* C7: the swap guard of thread_scope lives only inside the life of its thread
\* state (attach, then swap; unswap, then detach), and once f has returned, by
\* either way out of the script, the worker has no current thread state, its
\* thread state is gone and it does not hold the GIL
C7_ThreadScope ==
  \A w \in Workers :
    /\ pc[w] = "swap" =>
         cur[w] = WorkerTs[w] /\ holds[w] /\ ~HasScope(w, {"swap"})
    /\ HasScope(w, {"swap"}) =>
         /\ scopes[w][1] = [kind |-> "thread_state", ts |-> WorkerTs[w]]
         /\ WorkerTs[w] \in tsLive
    /\ pc[w] \in {"clear", "delete"} =>
         /\ scopes[w] = << [kind |-> "thread_state", ts |-> WorkerTs[w]] >>
         /\ WorkerTs[w] \in tsLive
         /\ cur[w] = WorkerTs[w]
    /\ pc[w] = "exit" =>
         /\ cur[w] = NULL
         /\ WorkerTs[w] \notin tsLive
         /\ ~holds[w]
         /\ scopes[w] = << >>

\* one worker has returned after its script failed and another after its
\* script printed
C7_Witness ==
  /\ \E w \in Workers : pc[w] = "exit" /\ out[w] = NotRead
  /\ \E w \in Workers : pc[w] = "exit" /\ out[w] # NotRead

\* C8: Py_InitializeEx runs once, before any interpreter or thread state
\* exists and before any thread is started; no thread state outlives its
\* interpreter; Py_Finalize runs once, when both sub-interpreters and all
\* worker thread states are gone
C8_LifetimeOrder ==
  /\ ~fatal
  /\ initCount <= 1
  /\ finCount <= 1
  /\ (mpc > 1 \/ interps # {} \/ tsLive # {} \/ \E w \in Workers : pc[w] # "unstarted")
       => initCount = 1
  /\ \A ts \in tsLive : tsInterp[ts] \in interps
  /\ \A w \in Workers :
       arg[w] \in ended => pc[w] = "exit" /\ WorkerTs[w] \notin tsLive
  /\ finCount = 1 =>
       /\ runtime = "finalized"
       /\ ended = Interps
       /\ interps = {}
       /\ tsLive = {}
       /\ \A w \in Workers : pc[w] = "exit"
  /\ mpc = Done => finCount = 1

\* main has returned after Py_Finalize
C8_Witness == mpc = Done /\ runtime = "finalized"

\* C9: when Py_EndInterpreter is called for a sub-interpreter, main holds the
\* GIL and is out of its release scope, its current thread state is the one
\* Py_NewInterpreter returned for that sub-interpreter, and that is the only
\* thread state of the interpreter
C9_DestroyPrecondition ==
  \A s \in SubInterpreters :
    mpc = PosOf("dtor_end", s) =>
      /\ holds["main"]
      /\ ~Released
      /\ s_ts[s] = PrimordialTs[s]
      /\ cur["main"] = s_ts[s]
      /\ InterpOf[s] \in interps
      /\ TsOfInterp(InterpOf[s]) = {PrimordialTs[s]}

\* both sub-interpreters were ended without a fatal error
C9_Witness ==
  /\ ~fatal
  /\ {InterpOf[s] : s \in SubInterpreters} \subseteq ended

\* the thread states saved by the live restore_tstate_scope and
\* swap_tstate_scope objects of thread t
IsSave(g) == g.kind \in {"restore", "swap"}
BindingStack(t) == SelectSeq(scopes[t], IsSave)

\* thread t is attached: its own thread state is live and has been made current
OwnTs(t) == IF t = "main" THEN MainTs ELSE WorkerTs[t]
Bound(t) ==
  /\ OwnTs(t) \in tsLive
  /\ t \in Workers => pc[t] # "restore"

\* C10 as stated: a thread's stack of saved thread states is empty exactly
\* when the thread is not attached
C10_StackEmptyIffUnbound ==
  \A t \in Threads : (BindingStack(t) = << >>) <=> ~Bound(t)

\* C10: a thread that has a saved thread state is attached
C10_StackImpliesBound ==
  \A t \in Threads : BindingStack(t) # << >> => Bound(t)

\* a worker is in its script with the swap guard of its thread_scope alive
C10_Witness ==
  \E w \in Workers : pc[w] = "run" /\ Len(BindingStack(w)) = 1

\* the step of main that calls Py_EndInterpreter for s
EndStep(s) ==
  /\ AtMain("dtor_end")
  /\ MainObj = s
  /\ mpc' # mpc \/ fatal'

\* C11 as stated: Py_EndInterpreter succeeds when the sub-interpreter's own
\* thread state is the only one left of it, and a thread_state constructed
\* with the interp of an ended sub-interpreter never yields a thread state
C11_AttachAfterDestroyDetected ==
  /\ [][\A s \in SubInterpreters :
          EndStep(s) /\ TsOfInterp(InterpOf[s]) = {s_ts[s]}
            => ~fatal' /\ InterpOf[s] \in ended']_vars
  /\ [][\A w \in Workers :
          pc[w] = "new" /\ arg[w] \in ended => WorkerTs[w] \notin tsLive']_vars

\* C12: the current thread state of a thread is live and was created by that
\* thread, no two threads have the same current thread state, the thread
\* states the guards of a thread hold were created by that thread, and a
\* thread state is destroyed as the current thread state of its creator
C12_BindingOwnership ==
  /\ [](\A t \in Threads :
          /\ cur[t] # NULL => cur[t] \in tsLive /\ tsCreator[cur[t]] = t
          /\ \A u \in Threads \ {t} : cur[t] # NULL => cur[t] # cur[u]
          /\ \A i \in DOMAIN scopes[t] :
               scopes[t][i].ts # NULL => tsCreator[scopes[t][i].ts] = t)
  /\ [][\A ts \in tsLive \ tsLive' :
          cur[tsCreator[ts]] = ts /\ holds[tsCreator[ts]]]_vars

\* a worker of s1 has its own thread state current while the thread state main
\* created for s1 is live and another worker of s1 has its own one too
C12_Witness ==
  /\ PrimordialTs["s1"] \in tsLive
  /\ cur["t1"] = WorkerTs["t1"]
  /\ WorkerTs["t3"] \in tsLive

\* C13 as stated: while main is in its release scope, and after it, the
\* thread state that was current at entry is main's current thread state
C13_BindingStaysCurrent ==
  /\ Released => cur["main"] = MainTs
  /\ mpc = PosOf("enable_dtor", "t") + 1 => cur["main"] = MainTs

\* C13: while main is in its release scope, the thread state that was current
\* at entry is live, not cleared, still of the main interpreter and kept by
\* the guard, but main's current thread state is NULL; after the scope it is
\* main's current thread state again
C13_BindingKeptNotCurrent ==
  /\ Released =>
       /\ MainTs \in tsLive
       /\ MainTs \notin tsCleared
       /\ tsInterp[MainTs] = MainInterp
       /\ Top("main") = [kind |-> "enable_threads", ts |-> MainTs]
       /\ cur["main"] = NULL
  /\ mpc = PosOf("enable_dtor", "t") + 1 => cur["main"] = MainTs

\* main is in its release scope while a worker runs its script
C13_Witness == Released /\ \E w \in Workers : pc[w] = "run" /\ wl[w] = "print"

\* the number of live swap_tstate_scope objects of thread t
IsSwap(g) == g.kind = "swap"
SwapDepth(t) == Len(SelectSeq(scopes[t], IsSwap))

\* the thread state the swap_tstate_scope thread t is about to construct is
\* given: _ts in ~sub_interpreter (line 143), _state in thread_scope (line 124)
SwapTarget(t) == IF t = "main" THEN s_ts[MainObj] ELSE WorkerTs[t]

\* C14: constructing a swap_tstate_scope makes its target current and keeps
\* the thread state that was current; destroying it makes the kept one
\* current; neither changes who holds the GIL. In ~sub_interpreter the
\* current thread state is NULL after Py_EndInterpreter and main's own thread
\* state is current again after the guard
C14_SwapScope ==
  /\ [][\A t \in Threads :
          /\ SwapDepth(t)' > SwapDepth(t) =>
               /\ cur'[t] = SwapTarget(t)
               /\ Top(t)'.ts = cur[t]
               /\ holds' = holds
          /\ SwapDepth(t)' < SwapDepth(t) =>
               /\ cur'[t] = Top(t).ts
               /\ holds' = holds]_vars
  /\ [](\A s \in SubInterpreters :
          /\ mpc = PosOf("dtor_swap", s) => cur["main"] = MainTs
          /\ mpc = PosOf("dtor_end", s) => cur["main"] = PrimordialTs[s]
          /\ mpc = PosOf("dtor_unswap", s) =>
               cur["main"] = NULL /\ PrimordialTs[s] \notin tsLive
          /\ mpc = PosOf("dtor_unswap", s) + 1 =>
               cur["main"] = MainTs /\ holds["main"])

\* both sub_interpreter destructors have returned
C14_Witness ==
  /\ mpc = PosOf("dtor_unswap", "s1") + 1
  /\ ended = {InterpOf["s1"], InterpOf["s2"]}
  /\ ~fatal

\* thread t has started its script and PyRun_SimpleString has not returned
InWorkload(t) ==
  /\ IF t = "main" THEN mpc < Done /\ prog[mpc].op = "run" ELSE pc[t] = "run"
  /\ wl[t] # "idle"

\* this step is a step of the script of thread u, or reads or writes sys.xxx
\* for it
WorkloadStep(u) == wl'[u] # wl[u] \/ out'[u] # out[u]

\* C15 as stated: while one thread is between the start and the end of its
\* script, no other thread takes a step of its script or reads or writes
\* sys.xxx
C15_WorkloadAtomic ==
  [][\A t \in Threads : \A u \in Threads \ {t} :
       InWorkload(t) => ~WorkloadStep(u)]_vars

\* C15: a thread takes a step of its script, or reads or writes sys.xxx, only
\* with the GIL, and every other thread that is between the start and the end
\* of its script is then waiting in the write of print with the GIL released
C15_WorkloadStepsExclusive ==
  [][\A u \in Threads :
       WorkloadStep(u) =>
         /\ holds[u] \/ holds'[u]
         /\ \A t \in Threads \ {u} : InWorkload(t) => wl[t] = "io" /\ ~holds[t]]_vars

\* a worker has read sys.xxx while another worker is in the write of its print
C15_Witness ==
  \E t \in Workers : \E u \in Workers \ {t} :
    /\ pc[t] = "run" /\ wl[t] = "io"
    /\ pc[u] = "run" /\ wl[u] = "print" /\ out[u] # NotRead

\* C16: a thread that has a current thread state holds the GIL
C16_CurrentImpliesToken == \A t \in Threads : cur[t] # NULL => holds[t]

\* a worker has its thread state current and holds the GIL while main, in its
\* release scope, has neither
C16_Witness ==
  /\ Released
  /\ cur["main"] = NULL
  /\ ~holds["main"]
  /\ \E w \in Workers : cur[w] = WorkerTs[w] /\ holds[w]

\* worker w is between the end of PyEval_RestoreThread in thread_state's
\* constructor and the end of PyThreadState_DeleteCurrent in its destructor
Attached(w) == pc[w] \in {"swap", "run", "unswap", "clear", "delete"}

\* the swap guard of thread_scope holds the worker's own thread state, and
\* PyThreadState_DeleteCurrent is called with the GIL and with that thread
\* state current
SwapIsIdentity(w) ==
  /\ \A i \in DOMAIN scopes[w] :
       scopes[w][i].kind = "swap" => scopes[w][i].ts = WorkerTs[w]
  /\ pc[w] = "delete" =>
       holds[w] /\ cur[w] = WorkerTs[w] /\ WorkerTs[w] \in tsLive

\* C17 as stated: the swap in thread_scope is an identity, and the worker's
\* current thread state is the one it created from the end of attach until
\* detach
C17_FreshBindingCurrentThroughout ==
  \A w \in Workers :
    /\ SwapIsIdentity(w)
    /\ Attached(w) => cur[w] = WorkerTs[w]

\* C17: the swap in thread_scope is an identity, and from the end of attach
\* until detach the worker's current thread state is the one it created
\* whenever the worker holds the GIL; while the interpreter has released the
\* GIL inside PyRun_SimpleString it is NULL and the interpreter keeps the
\* thread state
C17_FreshBindingCurrentWithToken ==
  \A w \in Workers :
    /\ SwapIsIdentity(w)
    /\ Attached(w) /\ wl[w] # "io" => cur[w] = WorkerTs[w] /\ holds[w]
    /\ Attached(w) /\ wl[w] = "io" =>
         /\ cur[w] = NULL
         /\ ~holds[w]
         /\ Top(w) = [kind |-> "allow_threads", ts |-> WorkerTs[w]]

\* a worker whose script has printed is about to call
\* PyThreadState_DeleteCurrent
C17_Witness == \E w \in Workers : pc[w] = "delete" /\ out[w] # NotRead

\* C18 as stated: until main enters its release scope no worker has finished
\* PyEval_RestoreThread, main holds the GIL from Py_InitializeEx on, and a
\* worker reads sys.xxx only after main's script is over
C18_MainHoldsUntilRelease ==
  /\ mpc <= PosOf("enable_ctor", "t") =>
       \A w \in Workers : pc[w] \in {"unstarted", "new", "restore"}
  /\ 1 < mpc /\ mpc <= PosOf("enable_ctor", "t") => holds["main"]
  /\ \A w \in Workers : out[w] # NotRead => mpc > PosOf("run", "main")

\* C18: until main enters its release scope no worker has finished
\* PyEval_RestoreThread; main holds the GIL from Py_InitializeEx on, except
\* while the interpreter has released it inside main's own PyRun_SimpleString,
\* when no worker has been started; a worker reads sys.xxx only after main's
\* script is over
C18_NoWorkerBeforeRelease ==
  /\ mpc <= PosOf("enable_ctor", "t") =>
       \A w \in Workers : pc[w] \in {"unstarted", "new", "restore"}
  /\ 1 < mpc /\ mpc <= PosOf("enable_ctor", "t") /\ wl["main"] # "io"
       => holds["main"]
  /\ wl["main"] = "io" =>
       /\ mpc = PosOf("run", "main")
       /\ GilFree
       /\ \A w \in Workers : pc[w] = "unstarted"
  /\ \A w \in Workers : out[w] # NotRead => mpc > PosOf("run", "main")

\* main is about to enter its release scope, sys.xxx is set, and all four
\* workers are blocked in PyEval_RestoreThread
C18_Witness ==
  /\ mpc = PosOf("enable_ctor", "t")
  /\ XSet
  /\ holds["main"]
  /\ \A w \in Workers : pc[w] = "restore"

\* C19: the destructor of a sub_interpreter whose _ts is NULL goes straight
\* to its end: no guard is constructed, no interpreter or thread state is
\* destroyed, and main's current thread state and the GIL holder stay as they
\* are
C19_NullDestroyIsNoop ==
  [][AtMain("dtor_swap") /\ s_ts[MainObj] = NULL /\ (mpc' # mpc \/ scopes' # scopes)
       => /\ mpc' = mpc + 3
          /\ UNCHANGED << cur, holds, scopes, interps, ended, tsLive, tsInterp,
                          tsCleared, s_ts, xxx, fatal >>]_vars

\* main is past the destructor of s1, whose Py_NewInterpreter had failed, with
\* its own thread state current, and s2 was ended normally
C19_Witness ==
  /\ failing = {"s1"}
  /\ mpc = PosOf("dtor_unswap", "s1") + 1
  /\ s_ts["s1"] = NULL
  /\ InterpOf["s1"] \notin ended
  /\ InterpOf["s2"] \in ended
  /\ cur["main"] = MainTs
  /\ holds["main"]
  /\ ~fatal

====
